---- MODULE Spec2Model ----
(***************************************************************************)
(* Model of strava-box (src/index.js): one batch run refreshes the Strava  *)
(* OAuth tokens, reads the athlete's stats and recent activities, formats  *)
(* a report and writes it to a gist.                                       *)
(*                                                                         *)
(* Three specifications share the module:                                  *)
(*   Spec     the pipeline main() over successive non-overlapping runs,    *)
(*   SpecFmt  the formatting pass of updateGist as a function of the       *)
(*            stats payload,                                               *)
(*   SpecBar  generateBarChart as a function of (percent, size).           *)
(*                                                                         *)
(* Representation.  A token is a string; the model writes it as a natural  *)
(* number, 0 standing for every falsy value ("" and undefined).  A JS      *)
(* number is a rational [t |-> "number", num, den]; NaN and undefined are  *)
(* values of their own.  Binary floating point rounding is not modelled:   *)
(* arithmetic is exact.  UNITS is "meters" or unset (both format with      *)
(* metersToKm); the "miles" branch of formatDistance is left out, its      *)
(* factor 0.000621371192 not being representable in TLC's integers.        *)
(***************************************************************************)
EXTENDS Integers, Sequences, FiniteSets, TLC

VARIABLES
  \* ---- process environment and the world outside the process
  envRefresh,     \* process.env.STRAVA_REFRESH_TOKEN (line 12)
  file,           \* content of strava-auth.json (AUTH_CACHE_FILE, line 18)
  upstream,       \* the refresh token the OAuth server currently accepts
  issued,         \* number of token pairs the OAuth server has issued
  \* ---- position and locals of main()
  pc,             \* the await main() is suspended at
  caller,         \* which fetcher called getStravaToken
  cache,          \* getStravaToken: cache (line 35)
  refreshReq,     \* refresh_token of the request in flight (line 68)
  data,           \* last response of the OAuth endpoint (line 62)
  lastPair,       \* last token pair a refresh returned in this run
  accessToken,    \* value getStravaToken returned (line 94)
  stats,          \* main: stats (line 25)
  activities,     \* main: activities (line 26)
  gist,           \* updateGist: gist.data.files (line 119)
  updateReq,      \* the gists.update request issued (lines 248-256)
  err,            \* the error the run terminated with
  \* ---- history of the run
  nRefresh, nStats, nActs, nGet, nUpdate,   \* requests issued in this run
  readFault,      \* "none", or how a read request failed
  rejected,       \* "none", or what the last failed request rejected with
  run,            \* number of the current run
  \* ---- inputs and results of the pure-function specifications
  percent, size, chart,   \* generateBarChart(percent, size) = chart
  lines                   \* result of updateGist's formatting pass on stats

vars == << envRefresh, file, upstream, issued, pc, caller, cache, refreshReq,
           data, lastPair, accessToken, stats, activities, gist, updateReq, err,
           nRefresh, nStats, nActs, nGet, nUpdate, readFault, rejected, run,
           percent, size, chart, lines >>

----------------------------------------------------------------------------
(* Bounds of the model *)

MaxRuns == 2          \* successive runs of the job
MaxIssued == 4        \* token pairs the OAuth server issues
MaxSize == 20         \* largest size given to generateBarChart in SpecBar
MaxPercent == 100     \* percent ranges over 0..MaxPercent in SpecBar

(* Program constants *)

BarSize == 19         \* generateBarChart(percent, 19)
SecondsPerHour == 3600   \* distance * 3600 / moving_time
Eighths == 8             \* size * 8 * percent / 100

----------------------------------------------------------------------------
(* JavaScript values *)

Num(n) == [t |-> "number", num |-> n, den |-> 1]
Rat(n, d) == [t |-> "number", num |-> n, den |-> d]
NaN == [t |-> "NaN", num |-> 0, den |-> 1]
Undefined == [t |-> "undefined", num |-> 0, den |-> 1]

\* ToNumber: undefined converts to NaN
ToNumber(x) == IF x.t = "undefined" THEN NaN ELSE x

\* ToBoolean of a number or undefined: 0, NaN and undefined are falsy
Truthy(x) == x.t = "number" /\ x.num # 0

JsAdd(a, b) ==
  LET x == ToNumber(a)  y == ToNumber(b) IN
  IF x.t = "NaN" \/ y.t = "NaN" THEN NaN
  ELSE Rat(x.num * y.den + y.num * x.den, x.den * y.den)

JsMul(a, b) ==
  LET x == ToNumber(a)  y == ToNumber(b) IN
  IF x.t = "NaN" \/ y.t = "NaN" THEN NaN
  ELSE Rat(x.num * y.num, x.den * y.den)

\* a / b for a, b >= 0; 0/0 is NaN.  x/0 with x > 0 (Infinity) does not
\* arise: a divisor is a moving time made truthy, or a total >= dividend.
JsDiv(a, b) ==
  LET x == ToNumber(a)  y == ToNumber(b) IN
  IF x.t = "NaN" \/ y.t = "NaN" \/ y.num = 0 THEN NaN
  ELSE Rat(x.num * y.den, x.den * y.num)

\* Math.floor of a non-negative number
MathFloor(x) == IF x.t = "NaN" THEN NaN ELSE Num(x.num \div x.den)

----------------------------------------------------------------------------
(* Strings of glyphs: a bar is a sequence of glyph levels, 0 = the empty  *)
(* glyph, 1..7 = the eighths, 8 = the full glyph (syms, line 264).        *)

syms == << 0, 1, 2, 3, 4, 5, 6, 7, 8 >>

\* String.prototype.substring(a, b) on syms; a NaN argument counts as 0
substring(s, a, b) ==
  LET lo == IF a.t = "NaN" THEN 0 ELSE a.num
      hi == IF b.t = "NaN" THEN 0 ELSE b.num
  IN  SubSeq(s, lo + 1, hi)

\* String.prototype.repeat(n); a NaN count is 0
RECURSIVE repeatN(_, _)
repeatN(s, n) == IF n <= 0 THEN << >> ELSE s \o repeatN(s, n - 1)
repeat(s, n) == repeatN(s, IF n.t = "NaN" THEN 0 ELSE n.num)

\* String.prototype.padEnd(n, fill) with a one-character fill
RECURSIVE padEnd(_, _, _)
padEnd(s, n, fill) == IF Len(s) >= n THEN s ELSE padEnd(s \o fill, n, fill)

\* frac % 8
JsMod(x, m) == IF x.t = "NaN" THEN NaN ELSE Num(x.num % m)

\* barsFull >= size: a comparison with NaN is false
JsGeq(x, n) == x.t = "number" /\ x.num >= n * x.den

\* Faulty variant of generateBarChart: the `barsFull >= size` return is missing
generateBarChartUnclamped(p, sz) ==
  LET frac == MathFloor(JsDiv(JsMul(Num(sz * Eighths), p), Num(100)))
      barsFull == MathFloor(JsDiv(frac, Num(Eighths)))
      semi == JsMod(frac, Eighths)
  IN  padEnd(repeat(substring(syms, Num(8), Num(9)), barsFull)
               \o substring(syms, semi, JsAdd(semi, Num(1))),
             sz, substring(syms, Num(0), Num(1)))

\* generateBarChart(percent, size), lines 263-277
generateBarChart(p, sz) ==
  LET frac == MathFloor(JsDiv(JsMul(Num(sz * Eighths), p), Num(100)))
      barsFull == MathFloor(JsDiv(frac, Num(Eighths)))
      semi == JsMod(frac, Eighths)
  IN  IF JsGeq(barsFull, sz)
      THEN repeat(substring(syms, Num(8), Num(9)), Num(sz))
      ELSE padEnd(repeat(substring(syms, Num(8), Num(9)), barsFull)
                    \o substring(syms, semi, JsAdd(semi, Num(1))),
                  sz, substring(syms, Num(0), Num(1)))

----------------------------------------------------------------------------
(* Report Formatter: the per-discipline summary of updateGist *)

\* A formatted quantity: Number.prototype.toFixed(2) followed by a suffix.
\* toFixed(2) takes the nearest number of hundredths, the larger on a tie;
\* NaN prints as "NaN".
toFixed2(x) ==
  IF x.t # "number" THEN [nan |-> TRUE, hundredths |-> 0]
  ELSE [nan |-> FALSE, hundredths |-> (200 * x.num + x.den) \div (2 * x.den)]

\* metersToKm, lines 321-324
metersToKm(meters) == toFixed2(JsMul(meters, Rat(1, 1000)))

\* formatDistance, lines 279-288, for UNITS = "meters" or unset
formatDistance(distance) == [fixed |-> metersToKm(distance), suffix |-> " km"]

\* pacePH.substring(0, pacePH.length - 3) followed by "/h", lines 163, 167
PacePerHour(pacePH) ==
  [fixed |-> pacePH.fixed,
   suffix |-> (IF pacePH.suffix \in {" km", " mi"} THEN "" ELSE pacePH.suffix)
              \o "/h"]

\* keyMappings, lines 126-136, in the order of Object.keys
keyMappings ==
  << [name |-> "Running",  key |-> "ytd_run_totals"],
     [name |-> "Swimming", key |-> "ytd_swim_totals"],
     [name |-> "Cycling",  key |-> "ytd_ride_totals"] >>

\* const { distance, moving_time } = data[key] throws a TypeError when
\* data[key] is undefined or null (line 144)
DestructureThrows(v) == v.t \in {"undefined", "null"}

\* The first map, lines 140-158: one entry per discipline
ExtractEntry(d, m) ==
  IF DestructureThrows(d[m.key])
  THEN [name |-> m.name, pace |-> Num(0), distance |-> Num(0)]
  ELSE LET distance == d[m.key].distance
           moving_time == d[m.key].moving_time
       IN  [name |-> m.name,
            pace |-> JsDiv(JsMul(distance, Num(SecondsPerHour)),
                           IF Truthy(moving_time) THEN moving_time ELSE Num(1)),
            distance |-> distance]

\* totalDistance += distance, line 145: what the try block adds before it
\* can throw is nothing, after it the distance read
AddedDistance(d, m) ==
  IF DestructureThrows(d[m.key]) THEN Num(0) ELSE d[m.key].distance

RECURSIVE SumDistance(_, _)
SumDistance(d, i) ==
  IF i = 0 THEN Num(0)
  ELSE JsAdd(SumDistance(d, i - 1), AddedDistance(d, keyMappings[i]))

totalDistance(d) == SumDistance(d, Len(keyMappings))

\* The second map, lines 159-169
ChartEntry(activity, total) ==
  LET pct == JsMul(JsDiv(activity.distance, total), Num(100))
  IN  [name |-> activity.name,
       distance |-> formatDistance(activity.distance),
       pace |-> PacePerHour(formatDistance(activity.pace)),
       barChart |-> generateBarChart(pct, BarSize)]

\* activityTypeLines, lines 140-176.  The third map pads and joins the four
\* columns with spaces; the model keeps the columns.
activityTypeLines(d) ==
  [i \in 1..Len(keyMappings) |->
     ChartEntry(ExtractEntry(d, keyMappings[i]), totalDistance(d))]

\* lastActivityLines is non-empty iff `activities && activities.length > 0`,
\* lines 180, 201
HasActivities(acts) == acts.t = "array" /\ acts.length > 0

\* The monthly block reads value["distance"] of every recent_*_totals entry
\* (lines 221-227): a null value throws a TypeError that nothing catches
MonthlyThrows(d) == d.recent_run_totals.t = "null"

\* The formatting pass of updateGist, lines 125-243: allLines, or the error
FormatReport(d, acts) ==
  IF MonthlyThrows(d) THEN [thrown |-> TRUE]
  ELSE [thrown |-> FALSE,
        lastActivity |-> HasActivities(acts),
        activityTypeLines |-> activityTypeLines(d)]

----------------------------------------------------------------------------
(* Inputs of the formatter *)

Distances == {Undefined, Num(0), Num(500), Num(1500)}
MovingTimes == {Undefined, Num(0), Num(1800)}

Totals == {Undefined} \cup
          [t : {"object"}, distance : Distances, moving_time : MovingTimes]

RecentTotals == {Undefined, [t |-> "null"], [t |-> "object"]}

StatsPayloads ==
  [t : {"object"}, ytd_run_totals : Totals, ytd_swim_totals : Totals,
   ytd_ride_totals : Totals, recent_run_totals : RecentTotals]

ActivityLists == {[t |-> "array", length |-> 0], [t |-> "array", length |-> 2]}

----------------------------------------------------------------------------
(* Token Cache Manager: getStravaToken, lines 33-95 *)

TokenKeys == {"stravaAccessToken", "stravaRefreshToken"}

\* The default record of lines 35-38.  STRAVA_ACCESS_TOKEN is left unset: the
\* access token of the record is overwritten (line 80) before any use.
EnvDefaults(refresh) ==
  [stravaAccessToken |-> 0, stravaRefreshToken |-> refresh]

\* Faulty variant of Overlay: a file that cannot be read or parsed empties
\* the record instead of leaving the defaults
OverlayDroppingDefaults(env, f) ==
  IF f.kind = "object"
  THEN [k \in TokenKeys |-> IF k \in f.keys THEN f[k] ELSE env[k]]
  ELSE IF f.kind = "missing" THEN env
  ELSE [k \in TokenKeys |-> 0]

\* Lines 41-52.  The file is overlaid key by key when it exists, is readable
\* and parses to an object; existsSync false ("missing"), a readFileSync error
\* ("unreadable"), a JSON.parse error ("corrupt") and Object.keys(null)
\* ("null") leave the defaults; a number, string or array ("scalar") parses
\* and has neither token key.
Overlay(env, f) ==
  IF f.kind = "object"
  THEN [k \in TokenKeys |-> IF k \in f.keys THEN f[k] ELSE env[k]]
  ELSE env

\* Faulty variant of HasRefreshToken: the validation is missing
HasRefreshTokenUnchecked(c) == TRUE

\* Line 55: if (!cache.stravaRefreshToken) throw
HasRefreshToken(c) == c.stravaRefreshToken # 0

\* Faulty variant of TokensValid: && written for ||
TokensValidEither(d) == d.access_token # 0 \/ d.refresh_token # 0

\* Line 76: if (!data.access_token || !data.refresh_token) throw
TokensValid(d) == d.access_token # 0 /\ d.refresh_token # 0

\* Faulty variant of RefreshedCache: line 81 is missing
RefreshedCacheAccessOnly(c, d) ==
  [c EXCEPT !.stravaAccessToken = d.access_token]

\* Lines 80-81
RefreshedCache(c, d) ==
  [c EXCEPT !.stravaAccessToken = d.access_token,
            !.stravaRefreshToken = d.refresh_token]

\* Line 92: the file after writeFileSync(AUTH_CACHE_FILE, JSON.stringify(cache))
\* returned; both tokens are non-empty strings here, so both keys are written
WrittenFile(c) ==
  [kind |-> "object", keys |-> TokenKeys,
   stravaAccessToken |-> c.stravaAccessToken,
   stravaRefreshToken |-> c.stravaRefreshToken]

\* writeFileSync either returns, or throws leaving the file as it was (the
\* open failed) or truncated (the write failed after the open)
WriteOutcomes == {"ok", "failed", "truncated"}

FileAfterWrite(f, c, w) ==
  CASE w = "ok" -> WrittenFile(c)
    [] w = "failed" -> f
    [] w = "truncated" -> [kind |-> "corrupt"]

----------------------------------------------------------------------------
(* The OAuth server, POST /oauth/token with grant_type refresh_token *)

\* The k-th pair the server issues
NewPair(k) == [kind |-> "json", access_token |-> 2 * k,
               refresh_token |-> 2 * k + 1]

NoTokens == [kind |-> "json", access_token |-> 0, refresh_token |-> 0]

\* What fetch(...).then(data => data.json()) can settle to for a request
\* carrying refresh token r: a rejection (transport failure, or a body that
\* is not JSON), an error body without tokens, and, when r is the token the
\* server accepts, a new pair (rotation) or a body with only one of the tokens
RefreshResponses(r) ==
  {[kind |-> "reject"], NoTokens}
  \cup (IF r = upstream /\ issued < MaxIssued
        THEN {NewPair(issued + 1)}
        ELSE {})
  \cup (IF r = upstream
        THEN {[kind |-> "json", access_token |-> 0,
               refresh_token |-> upstream],
              [kind |-> "json", access_token |-> 2 * issued,
               refresh_token |-> 0]}
        ELSE {})

Rotates(d) == d.kind = "json" /\ d.refresh_token > upstream

----------------------------------------------------------------------------
(* Publisher *)

\* Faulty variant of FirstFileName: the last key is taken
LastFileName(files) == files[Len(files)]

\* Object.keys(gist.data.files)[0], line 247; files are kept in key order
FirstFileName(files) == Head(files)

GistFiles == {<< "strava.md" >>, << "notes.md", "strava.md" >>}

\* What a rejected octokit call rejects with
RequestErrors == {"HttpError", "NetworkError"}

\* catch (error) { console.error(...); throw error; }, lines 120-123, 257-260
Rethrown(error) == error

\* The body of a non-success response to the stats request: an object with
\* a message and no totals
StatsErrorBody ==
  [t |-> "object", ytd_run_totals |-> Undefined, ytd_swim_totals |-> Undefined,
   ytd_ride_totals |-> Undefined, recent_run_totals |-> Undefined]

\* The same for the activities request: an object, not an array
ActivitiesErrorBody == [t |-> "object"]

GoodTotals ==
  [t |-> "object", distance |-> Num(1500), moving_time |-> Num(1800)]

\* Stats payloads of successful responses the pipeline is run on
PipelinePayloads ==
  { [t |-> "object", ytd_run_totals |-> GoodTotals, ytd_swim_totals |-> s,
     ytd_ride_totals |-> GoodTotals, recent_run_totals |-> r] :
      s \in {GoodTotals, Undefined,
             [t |-> "object", distance |-> Undefined,
              moving_time |-> Num(1800)]},
      r \in {[t |-> "object"], [t |-> "null"]} }

----------------------------------------------------------------------------
(* Spec: main(), lines 24-28, run after run *)

InitFilesOnDisk ==
  { [kind |-> k] :
      k \in {"missing", "unreadable", "corrupt", "null", "scalar"} }
  \cup { [kind |-> "object", keys |-> {}, stravaAccessToken |-> 0,
          stravaRefreshToken |-> 0],
         [kind |-> "object", keys |-> {"stravaRefreshToken"},
          stravaAccessToken |-> 0, stravaRefreshToken |-> 0],
         [kind |-> "object", keys |-> TokenKeys,
          stravaAccessToken |-> 0, stravaRefreshToken |-> 1] }

RunStart ==
  /\ pc = "getStravaStats"
  /\ caller = "none"
  /\ cache = [stravaAccessToken |-> 0, stravaRefreshToken |-> 0]
  /\ refreshReq = 0
  /\ data = [kind |-> "none"]
  /\ lastPair = [kind |-> "none"]
  /\ accessToken = 0
  /\ stats = [t |-> "none"]
  /\ activities = [t |-> "none"]
  /\ gist = << >>
  /\ updateReq = [kind |-> "none"]
  /\ err = "none"
  /\ nRefresh = 0 /\ nStats = 0 /\ nActs = 0 /\ nGet = 0 /\ nUpdate = 0
  /\ readFault = "none"
  /\ rejected = "none"

Init ==
  /\ envRefresh \in {0, 1}
  /\ file \in InitFilesOnDisk
  /\ upstream = 1
  /\ issued = 0
  /\ run = 1
  /\ RunStart
  /\ percent = 0 /\ size = 0 /\ chart = << >> /\ lines = [thrown |-> FALSE]

\* getStravaToken up to the await of line 62, called from line 102 or 111
GetStravaTokenLoad ==
  /\ pc \in {"getStravaStats", "getRecentActivities"}
  /\ LET c == Overlay(EnvDefaults(envRefresh), file) IN
       /\ cache' = c
       /\ caller' = pc
       /\ data' = [kind |-> "none"]
       /\ IF HasRefreshToken(c)
          THEN /\ refreshReq' = c.stravaRefreshToken
               /\ nRefresh' = nRefresh + 1
               /\ pc' = "oauth"
               /\ err' = err
          ELSE /\ err' = "NoRefreshToken"
               /\ pc' = "failed"
               /\ UNCHANGED << refreshReq, nRefresh >>
  /\ UNCHANGED << envRefresh, file, upstream, issued, lastPair,
                  accessToken, stats, activities, gist, updateReq, nStats,
                  nActs, nGet, nUpdate, readFault, rejected, run, percent,
                  size, chart, lines >>

\* The refresh settles: lines 71-95, then the fetch of line 103 or 112
OAuthSettled ==
  /\ pc = "oauth"
  /\ \E d \in RefreshResponses(refreshReq), w \in WriteOutcomes :
       /\ data' = d
       /\ upstream' = IF Rotates(d) THEN d.refresh_token ELSE upstream
       /\ issued' = IF Rotates(d) THEN issued + 1 ELSE issued
       /\ IF d.kind = "reject"
          THEN /\ rejected' = "FetchError"
               /\ err' = rejected'
               /\ pc' = "failed"
               /\ UNCHANGED << cache, file, lastPair, accessToken, nStats,
                               nActs >>
          ELSE IF ~TokensValid(d)
          THEN /\ err' = "RefreshFailed"
               /\ pc' = "failed"
               /\ UNCHANGED << cache, file, lastPair, accessToken, nStats,
                               nActs, rejected >>
          ELSE /\ cache' = RefreshedCache(cache, d)
               /\ lastPair' = d
               /\ rejected' = rejected
               /\ file' = FileAfterWrite(file, cache', w)
               /\ IF w = "ok"
                  THEN /\ accessToken' = cache'.stravaAccessToken
                       /\ err' = err
                       /\ IF caller = "getStravaStats"
                          THEN /\ pc' = "stats"
                               /\ nStats' = nStats + 1
                               /\ nActs' = nActs
                          ELSE /\ pc' = "activities"
                               /\ nActs' = nActs + 1
                               /\ nStats' = nStats
                  ELSE /\ err' = "WriteError"
                       /\ pc' = "failed"
                       /\ UNCHANGED << accessToken, nStats, nActs >>
  /\ UNCHANGED << envRefresh, caller, refreshReq, stats, activities, gist,
                  updateReq, nRefresh, nGet, nUpdate, readFault, run,
                  percent, size, chart, lines >>

\* The stats request settles: lines 103-104, main line 25
StatsSettled ==
  /\ pc = "stats"
  /\ \/ /\ readFault' = "transport"
        /\ rejected' = "FetchError"
        /\ err' = rejected'
        /\ pc' = "failed"
        /\ stats' = stats
     \/ /\ readFault' = "http"
        /\ stats' = StatsErrorBody
        /\ pc' = "getRecentActivities"
        /\ UNCHANGED << err, rejected >>
     \/ /\ stats' \in PipelinePayloads
        /\ pc' = "getRecentActivities"
        /\ UNCHANGED << readFault, rejected, err >>
  /\ UNCHANGED << envRefresh, file, upstream, issued, caller, cache,
                  refreshReq, data, lastPair, accessToken, activities, gist,
                  updateReq, nRefresh, nStats, nActs, nGet, nUpdate, run,
                  percent, size, chart, lines >>

\* The activities request settles: lines 112-113, main line 26, and
\* updateGist issues gists.get, line 119
ActivitiesSettled ==
  /\ pc = "activities"
  /\ \/ /\ readFault' = "transport"
        /\ rejected' = "FetchError"
        /\ err' = rejected'
        /\ pc' = "failed"
        /\ UNCHANGED << activities, nGet >>
     \/ /\ readFault' = "http"
        /\ activities' = ActivitiesErrorBody
        /\ pc' = "gists_get"
        /\ nGet' = nGet + 1
        /\ UNCHANGED << err, rejected >>
     \/ /\ activities' \in ActivityLists
        /\ pc' = "gists_get"
        /\ nGet' = nGet + 1
        /\ UNCHANGED << readFault, rejected, err >>
  /\ UNCHANGED << envRefresh, file, upstream, issued, caller, cache,
                  refreshReq, data, lastPair, accessToken, stats, gist,
                  updateReq, nRefresh, nStats, nActs, nUpdate, run, percent,
                  size, chart, lines >>

\* gists.get settles: lines 118-123, the formatting pass, and gists.update
\* is issued, lines 245-256
GistGetSettled ==
  /\ pc = "gists_get"
  /\ \/ \E e \in RequestErrors :
          /\ rejected' = e
          /\ err' = Rethrown(e)
          /\ pc' = "failed"
          /\ UNCHANGED << gist, updateReq, nUpdate >>
     \/ \E f \in GistFiles :
          /\ gist' = f
          /\ rejected' = rejected
          /\ LET report == FormatReport(stats, activities) IN
               IF report.thrown
               THEN /\ err' = "TypeError"
                    /\ pc' = "failed"
                    /\ UNCHANGED << updateReq, nUpdate >>
               ELSE /\ updateReq' = [kind |-> "update",
                                     key |-> FirstFileName(f),
                                     filename |->
                                       "Oudom Strava Activity Summary",
                                     content |-> report]
                    /\ nUpdate' = nUpdate + 1
                    /\ pc' = "gists_update"
                    /\ err' = err
  /\ UNCHANGED << envRefresh, file, upstream, issued, caller, cache,
                  refreshReq, data, lastPair, accessToken, stats, activities,
                  nRefresh, nStats, nActs, nGet, readFault, run, percent,
                  size, chart, lines >>

\* gists.update settles: lines 248-260
GistUpdateSettled ==
  /\ pc = "gists_update"
  /\ \/ /\ pc' = "done"
        /\ UNCHANGED << err, rejected >>
     \/ \E e \in RequestErrors :
          /\ rejected' = e
          /\ err' = Rethrown(e)
          /\ pc' = "failed"
  /\ UNCHANGED << envRefresh, file, upstream, issued, caller, cache,
                  refreshReq, data, lastPair, accessToken, stats, activities,
                  gist, updateReq, nRefresh, nStats, nActs, nGet, nUpdate,
                  readFault, run, percent, size, chart, lines >>

\* The scheduler starts the next run once the process has exited
NextRun ==
  /\ pc \in {"done", "failed"}
  /\ run < MaxRuns
  /\ run' = run + 1
  /\ pc' = "getStravaStats"
  /\ caller' = "none"
  /\ cache' = [stravaAccessToken |-> 0, stravaRefreshToken |-> 0]
  /\ refreshReq' = 0
  /\ data' = [kind |-> "none"]
  /\ lastPair' = [kind |-> "none"]
  /\ accessToken' = 0
  /\ stats' = [t |-> "none"]
  /\ activities' = [t |-> "none"]
  /\ gist' = << >>
  /\ updateReq' = [kind |-> "none"]
  /\ err' = "none"
  /\ nRefresh' = 0 /\ nStats' = 0 /\ nActs' = 0 /\ nGet' = 0 /\ nUpdate' = 0
  /\ readFault' = "none"
  /\ rejected' = "none"
  /\ UNCHANGED << envRefresh, file, upstream, issued, percent, size, chart,
                  lines >>

Next ==
  \/ GetStravaTokenLoad
  \/ OAuthSettled
  \/ StatsSettled
  \/ ActivitiesSettled
  \/ GistGetSettled
  \/ GistUpdateSettled
  \/ NextRun

Spec == Init /\ [][Next]_vars

----------------------------------------------------------------------------
(* Properties *)

\* C1: in every run the OAuth refresh endpoint is called exactly once, and a
\* completed run consists of that one refresh, the two reads and one update.
C1_OneRefreshPerRun ==
  /\ nRefresh <= 1
  /\ pc = "done" => nRefresh = 1 /\ nStats = 1 /\ nActs = 1 /\ nUpdate = 1

\* C2: a transport or HTTP failure of the stats read or of the activities
\* read (a non-success response with a JSON error body included) terminates
\* the run: no update request is issued in such a run.
C2_ReadFailureStopsRun == readFault # "none" => nUpdate = 0

\* C3: no refresh request carries an empty refresh token; when the record is
\* left without a refresh token by the overlay, getStravaToken throws the
\* configuration error before any request and without writing the file.
C3_NoRefreshWithoutToken ==
  /\ [](pc = "oauth" => refreshReq # 0)
  /\ [][ ( /\ pc \in {"getStravaStats", "getRecentActivities"}
           /\ Overlay(EnvDefaults(envRefresh), file).stravaRefreshToken = 0 )
         => ( /\ pc' = "failed"
              /\ err' = "NoRefreshToken"
              /\ nRefresh' = nRefresh
              /\ file' = file ) ]_vars

C3_Witness == pc = "failed" /\ err = "NoRefreshToken" /\ envRefresh # 0

FileHolds(pair) ==
  /\ file.kind = "object"
  /\ file.keys = TokenKeys
  /\ file.stravaAccessToken = pair.access_token
  /\ file.stravaRefreshToken = pair.refresh_token

CacheReadProblem(f) == f.kind \in {"missing", "unreadable", "corrupt", "null"}

\* C5: a cache file that is missing, unreadable or unparseable is ignored:
\* the record stays the environment's, and with a non-empty environment
\* refresh token the refresh is requested with that token and nothing fails.
C5_CacheReadProblemIgnored ==
  [][ ( /\ pc \in {"getStravaStats", "getRecentActivities"}
        /\ CacheReadProblem(file)
        /\ pc' # pc )
      => ( /\ cache' = EnvDefaults(envRefresh)
           /\ envRefresh # 0 =>
                /\ pc' = "oauth"
                /\ refreshReq' = envRefresh
                /\ err' = "none" ) ]_vars

C5_Witness ==
  /\ pc = "oauth"
  /\ file.kind \in {"unreadable", "corrupt", "null"}
  /\ refreshReq = envRefresh

LacksToken(d) ==
  d.kind = "json" /\ (d.access_token = 0 \/ d.refresh_token = 0)

\* C6: a refresh response without the access token or without the refresh
\* token makes getStravaToken throw the refresh failure; that call leaves the
\* file and the record unchanged, and the run ends with no update request.
C6_IncompleteResponseIsFatal ==
  /\ [][ (pc = "oauth" /\ LacksToken(data'))
         => ( /\ err' = "RefreshFailed"
              /\ pc' = "failed"
              /\ file' = file
              /\ cache' = cache
              /\ nUpdate' = 0 ) ]_vars
  /\ [](err = "RefreshFailed" => pc = "failed" /\ nUpdate = 0)

C6_Witness ==
  /\ err = "RefreshFailed"
  /\ data.refresh_token # 0
  /\ data.access_token = 0
  /\ lastPair.kind = "json"
  /\ FileHolds(lastPair)

WellFormed(v) ==
  v.t = "object" /\ v.distance.t = "number" /\ v.moving_time.t = "number"

FaultyTotals(v) == ~WellFormed(v)

ZeroTotals == [t |-> "object", distance |-> Num(0), moving_time |-> Num(0)]

\* C7: when one discipline's year-to-date totals are missing or malformed
\* (key absent, or distance or moving_time absent) and the rest of the
\* payload is well formed, the formatting pass does not throw, that
\* discipline is rendered as the zero entry, and the other two are rendered
\* as they are when the faulty discipline has distance 0.
C7_DisciplineFaultIsolated ==
  pc = "output" =>
    \A i \in 1..Len(keyMappings) :
      ( /\ FaultyTotals(stats[keyMappings[i].key])
        /\ \A j \in 1..Len(keyMappings) :
             j # i => WellFormed(stats[keyMappings[j].key])
        /\ stats.recent_run_totals.t # "null" )
      => /\ ~lines.thrown
         /\ lines.activityTypeLines[i].distance = formatDistance(Num(0))
         /\ lines.activityTypeLines[i].pace =
              PacePerHour(formatDistance(Num(0)))
         /\ \A j \in 1..Len(keyMappings) :
              j # i =>
                lines.activityTypeLines[j] =
                  activityTypeLines(
                    [stats EXCEPT ![keyMappings[i].key] = ZeroTotals])[j]

\* The glyph levels the specification gives for 0 <= p <= 100
ExpectedBar(p, n) ==
  LET frac == (n * 8 * p) \div 100
      full == frac \div 8
  IN  [i \in 1..n |-> IF i <= full THEN 8
                      ELSE IF i = full + 1 THEN frac % 8
                      ELSE 0]

\* C8: generateBarChart(p, N) has exactly N cells for 0 <= p <= 100, N >= 1;
\* p = 0 gives N empty cells, p = 100 gives N full cells, and in between the
\* bar is floor(floor(N*8*p/100)/8) full cells, one cell at level
\* floor(N*8*p/100) mod 8, then empty cells.
C8_BarChartShape ==
  (pc = "output" /\ percent <= 100) =>
    /\ Len(chart) = size
    /\ percent = 0 => chart = [i \in 1..size |-> 0]
    /\ percent = 100 => chart = [i \in 1..size |-> 8]
    /\ (0 < percent /\ percent < 100) => chart = ExpectedBar(percent, size)

C8_Witness ==
  /\ pc = "output"
  /\ percent = 50
  /\ size = BarSize
  /\ chart = << 8, 8, 8, 8, 8, 8, 8, 8, 8, 4, 0, 0, 0, 0, 0, 0, 0, 0, 0 >>

\* C9: the update request is issued at most once per run, only after the
\* stats read, the activities read and gists.get have completed, under the
\* first file name of the fetched gist; when gists.get fails its error is
\* rethrown and no update is issued; when the update fails its error is
\* rethrown.
C9_UpdateOnceAfterReads ==
  /\ nUpdate <= 1
  /\ nUpdate = 1 =>
       /\ nStats = 1 /\ nActs = 1 /\ nGet = 1
       /\ stats.t = "object"
       /\ activities.t \in {"array", "object"}
       /\ Len(gist) > 0
       /\ updateReq.key = gist[1]
  /\ (nGet = 1 /\ gist = << >> /\ pc # "gists_get") =>
       /\ pc = "failed"
       /\ rejected \in RequestErrors
       /\ err = rejected
       /\ nUpdate = 0
  /\ (nUpdate = 1 /\ pc \notin {"gists_update", "done"}) =>
       /\ pc = "failed"
       /\ rejected \in RequestErrors
       /\ err = rejected

C9_Witness ==
  /\ pc = "done"
  /\ nUpdate = 1
  /\ Len(gist) = 2
  /\ updateReq.key = "notes.md"

\* C10: once the server has rotated the refresh token, every refresh request
\* carries the refresh token of the most recent rotation, in this run and in
\* the runs after it.
C10_RefreshTokenIsCurrent ==
  (pc = "oauth" /\ issued > 0) => refreshReq = upstream

----------------------------------------------------------------------------
(* Values the variables of another specification rest at *)

PipelineIdle ==
  /\ envRefresh = 0 /\ file = [kind |-> "missing"] /\ upstream = 0
  /\ issued = 0 /\ caller = "none" /\ refreshReq = 0
  /\ cache = [stravaAccessToken |-> 0, stravaRefreshToken |-> 0]
  /\ data = [kind |-> "none"] /\ lastPair = [kind |-> "none"]
  /\ accessToken = 0 /\ gist = << >> /\ updateReq = [kind |-> "none"]
  /\ err = "none"
  /\ nRefresh = 0 /\ nStats = 0 /\ nActs = 0 /\ nGet = 0 /\ nUpdate = 0
  /\ readFault = "none" /\ rejected = "none" /\ run = 0

----------------------------------------------------------------------------
(* SpecBar: generateBarChart for percent in 0..MaxPercent, size in 1..MaxSize *)

InitBar ==
  /\ percent \in 0..MaxPercent
  /\ size \in 1..MaxSize
  /\ chart = << >>
  /\ lines = [thrown |-> FALSE]
  /\ stats = [t |-> "none"] /\ activities = [t |-> "none"]
  /\ pc = "input"
  /\ PipelineIdle

RenderBar ==
  /\ pc = "input"
  /\ chart' = generateBarChart(Num(percent), size)
  /\ pc' = "output"
  /\ UNCHANGED << envRefresh, file, upstream, issued, caller, cache,
                  refreshReq, data, lastPair, accessToken, stats, activities,
                  gist, updateReq, err, nRefresh, nStats, nActs, nGet, nUpdate,
                  readFault, rejected, run, percent, size, lines >>

NextBar == RenderBar

SpecBar == InitBar /\ [][NextBar]_vars

----------------------------------------------------------------------------
(* SpecFmt: the formatting pass of updateGist over the stats payloads *)

InitFmt ==
  /\ stats \in StatsPayloads
  /\ activities \in ActivityLists
  /\ lines = [thrown |-> FALSE]
  /\ percent = 0 /\ size = 0 /\ chart = << >>
  /\ pc = "input"
  /\ PipelineIdle

Format ==
  /\ pc = "input"
  /\ lines' = FormatReport(stats, activities)
  /\ pc' = "output"
  /\ UNCHANGED << envRefresh, file, upstream, issued, caller, cache,
                  refreshReq, data, lastPair, accessToken, stats, activities,
                  gist, updateReq, err, nRefresh, nStats, nActs, nGet, nUpdate,
                  readFault, rejected, run, percent, size, chart >>

NextFmt == Format

SpecFmt == InitFmt /\ [][NextFmt]_vars

====
